---------------------------- MODULE Spec2Model ----------------------------
(***************************************************************************)
(* A model of brain_diffusion/Chad/msd.py: the trajectory filler fillin2,  *)
(* the assembler MSD_iteration and the statistics engine                   *)
(* vectorized_MMSD_calcs.                                                  *)
(*                                                                         *)
(* numpy arrays are sequences, so a Python index i is the index i+1 here.  *)
(* A trajectory row is the tuple <<id, frame, x, y, z>> (columns 0..4).    *)
(***************************************************************************)
EXTENDS Integers, Sequences, FiniteSets

VARIABLES
    data,       \* fillin2: the argument
    filledin,   \* fillin2: the returned array
    fillpc,     \* fillin2: "call", "returned" or the exception raised
    sessions,   \* MSD_iteration: the rows of Traj_{name}_{num}.tif.csv, num = 1..totvids
    cut,        \* MSD_iteration: the argument cut
    conversion, \* MSD_iteration: the argument conversion
    iterpc,     \* MSD_iteration: the loop being run, "returned" or the exception raised
    num,        \* MSD_iteration: the loop variable num
    tots,       \* MSD_iteration: tots[num], particles of video num
    newtots,    \* MSD_iteration: newtots[num], cumulative particles
    tlength,    \* MSD_iteration: tlength[num], cumulative rows
    frames,     \* MSD_iteration: the largest frame number seen
    placeholder,\* MSD_iteration: the merged rows, ids made global
    fixed,      \* MSD_iteration: the merged rows, coordinates converted
    total1,     \* MSD_iteration: total1
    nones,      \* MSD_iteration: the particles cut so far
    x, y,       \* MSD_iteration: frames x particles, absolute frames
    xs, ys,     \* MSD_iteration: frames x particles, shifted to start at row 0
    result,     \* MSD_iteration: the returned tuple
    xs_m, ys_m, \* vectorized_MMSD_calcs: the arguments xs_m and ys_m
    frame_m,    \* vectorized_MMSD_calcs: the argument frame_m
    m_frames,   \* vectorized_MMSD_calcs: the argument frames
    m_total1,   \* vectorized_MMSD_calcs: the argument total1
    frame,      \* vectorized_MMSD_calcs: the loop variable frame (the lag)
    SM1x, SM1y, \* vectorized_MMSD_calcs: lag x particle mean squared displacements
    Mxa, Mya,   \* vectorized_MMSD_calcs: the masked per-particle means of the last lag
    dist,       \* vectorized_MMSD_calcs: the masked array whose log is taken
    m_result,   \* vectorized_MMSD_calcs: the returned tuple
    mmsdpc      \* vectorized_MMSD_calcs: "loop", "returned" or the exception raised

fillVars == <<data, filledin, fillpc>>

iterVars == <<sessions, cut, conversion, iterpc, num, tots, newtots, tlength,
              frames, placeholder, fixed, total1, nones, x, y, xs, ys, result>>

mmsdVars == <<xs_m, ys_m, frame_m, m_frames, m_total1, frame, SM1x, SM1y,
              Mxa, Mya, dist, m_result, mmsdpc>>

vars == <<fillVars, iterVars, mmsdVars>>

----------------------------------------------------------------------------
(* Bounds of the checked inputs. *)

\* fillin2: the longest input trajectory.
MaxRows == 3
\* fillin2: the largest frame number of an input row.
MaxFrame == 4

\* MSD_iteration: the largest frame number of a record.
MaxFrameI == 2
\* MSD_iteration: the largest cut.
MaxCut == 2

\* MSD_iteration: the most rows of a session file whose rows are in any order.
MaxFileRows == 2

\* vectorized_MMSD_calcs: the most rows of a position matrix.
MaxRowsM == 3

\* The (x, y, z) of an input row is one of these.
CoordChoices == { <<1, 11, 21>>, <<2, 12, 22>> }
\* The Track ID of a fillin2 input.
IdChoices == {1, 2}

----------------------------------------------------------------------------
(* Helpers standing for numpy and the builtins. *)

SeqMax(s) == CHOOSE m \in {s[i] : i \in DOMAIN s} : \A i \in DOMAIN s : s[i] <= m
SeqMin(s) == CHOOSE m \in {s[i] : i \in DOMAIN s} : \A i \in DOMAIN s : m <= s[i]

\* data[:, c] for the Python column c
Column(rows, c) == [i \in DOMAIN rows |-> rows[i][c + 1]]

Abs(v) == IF v < 0 THEN -v ELSE v

\* np.diff(s)
Diff(s) == [i \in 1..(Len(s) - 1) |-> s[i + 1] - s[i]]

\* np.linspace(lo, hi, n), for the evenly dividing case the code uses
Linspace(lo, hi, n) ==
    [k \in 1..n |-> IF n = 1 THEN lo ELSE lo + ((k - 1) * (hi - lo)) \div (n - 1)]

----------------------------------------------------------------------------
(* fillin2 *)

\* The outcome of a call: the value returned, or the exception raised.
Return(v) == [exc |-> "none", val |-> v]
Raise(e) == [exc |-> e, val |-> <<>>]
IsError(r) == r.exc # "none"

\* "Frames must all increase.": np.all(np.diff(f) == abs(np.diff(f)))
FramesAssert(rows) ==
    LET d == Diff(Column(rows, 1)) IN \A i \in DOMAIN d : d[i] = Abs(d[i])

\* shap - shape1
NewShapWithoutLastFrame(rows) == SeqMax(Column(rows, 1)) - SeqMin(Column(rows, 1))
NewShap(rows) ==
    LET shap   == SeqMax(Column(rows, 1)) + 1
        shape1 == SeqMin(Column(rows, 1))
    IN  shap - shape1

\* filledin before the loop: zeros, row 0 copied from the input, and the frame
\* column overwritten by the linspace.
FilledInit(rows) ==
    LET shape1  == SeqMin(Column(rows, 1))
        newshap == NewShap(rows)
        fr      == Linspace(shape1, shape1 + newshap - 1, newshap)
    IN  [k \in 1..newshap |->
            IF k = 1 THEN <<rows[1][1], fr[1], rows[1][3], rows[1][4], rows[1][5]>>
                     ELSE <<0, fr[k], 0, 0, 0>>]

\* The loop "for num in range(1, newshap)", from iteration num = fnum on.  new is the
\* code's counter of the iterations whose frame was below frames[num-new-1];
\* count, other and tot are written and never read.  The result is the array,
\* or the IndexError raised when an index leaves the input.
RECURSIVE FillLoop(_, _, _, _)
FillLoop(rows, out, fnum, new) ==
    IF fnum >= Len(out) THEN Return(out)
    ELSE
        LET probe == fnum - new - 1          \* Python index frames[num-new-1]
        IN  IF probe < -Len(rows) \/ probe >= Len(rows) THEN Raise("IndexError")
            ELSE
              LET pidx == IF probe < 0 THEN probe + Len(rows) ELSE probe
                  d    == out[fnum + 1][2] - rows[pidx + 1][2]
                  new2 == IF d = 0 THEN new
                          ELSE IF d < 0 THEN new + 1 ELSE new
                  src  == fnum - new2 - 1    \* Python index data[num-new-1]
              IN  IF src < -Len(rows) \/ src >= Len(rows) THEN Raise("IndexError")
                  ELSE
                    LET sidx == IF src < 0 THEN src + Len(rows) ELSE src
                        row  == <<rows[sidx + 1][1], out[fnum + 1][2],
                                  rows[sidx + 1][3], rows[sidx + 1][4],
                                  rows[sidx + 1][5]>>
                    IN  FillLoop(rows, [out EXCEPT ![fnum + 1] = row], fnum + 1, new2)

\* fillin2(data): the filled array, or the name of the exception raised.
fillin2(rows) ==
    IF ~FramesAssert(rows) THEN Raise("AssertionError")
    ELSE IF ~(Len(rows) > 0) THEN Raise("AssertionError")
    ELSE FillLoop(rows, FilledInit(rows), 1, 0)

\* MSD_iteration is not running.
IterIdle ==
    /\ sessions = <<>> /\ cut = 0 /\ conversion = <<1, 1, 1>> /\ iterpc = "idle"
    /\ num = 0 /\ tots = <<>> /\ newtots = <<>> /\ tlength = <<>> /\ frames = 0
    /\ placeholder = <<>> /\ fixed = <<>> /\ total1 = 0 /\ nones = 0
    /\ x = <<>> /\ y = <<>> /\ xs = <<>> /\ ys = <<>> /\ result = <<>>

\* vectorized_MMSD_calcs is not running.
MmsdIdle ==
    /\ xs_m = <<>> /\ ys_m = <<>> /\ frame_m = 0 /\ m_frames = 0 /\ m_total1 = 0
    /\ frame = 0 /\ SM1x = <<>> /\ SM1y = <<>> /\ Mxa = <<>> /\ Mya = <<>>
    /\ dist = <<>> /\ m_result = <<>> /\ mmsdpc = "idle"

\* The inputs: up to MaxRows rows of one Track ID, frames in any order.
FillInputs ==
    UNION { { [i \in 1..n |-> <<id, fr[i], co[i][1], co[i][2], co[i][3]>>] :
                fr \in [1..n -> 0..MaxFrame], co \in [1..n -> CoordChoices],
                id \in IdChoices }
            : n \in 0..MaxRows }

FillInit ==
    /\ data \in FillInputs
    /\ filledin = <<>>
    /\ fillpc = "call"
    /\ IterIdle
    /\ MmsdIdle

Fillin2Call ==
    /\ fillpc = "call"
    /\ LET r == fillin2(data)
       IN  IF IsError(r)
           THEN /\ fillpc' = r.exc
                /\ filledin' = <<>>
           ELSE /\ fillpc' = "returned"
                /\ filledin' = r.val
    /\ UNCHANGED <<data, iterVars, mmsdVars>>

FillNext == Fillin2Call

SpecFill == FillInit /\ [][FillNext]_vars

----------------------------------------------------------------------------
(* Claims about fillin2, checked under SpecFill. *)

StrictlyIncreasing(rows) == \A i \in 1..(Len(rows) - 1) : rows[i][2] < rows[i + 1][2]

\* Frames are consecutive integers: no gap.
Dense(rows) == \A i \in 1..(Len(rows) - 1) : rows[i + 1][2] = rows[i][2] + 1

\* The input row with the greatest frame <= f.
LastObservation(rows, f) ==
    CHOOSE i \in DOMAIN rows :
        /\ rows[i][2] <= f
        /\ \A j \in DOMAIN rows : rows[j][2] <= f => rows[j][2] <= rows[i][2]

\* C1: for a non-empty input with strictly increasing frames, output row k
\* carries the (id, x, y, z) of the observation with the greatest frame
\* <= min_frame + k: an observed frame shows its own observation, a missing
\* frame the most recent earlier one.
C1_CarryForward ==
    (fillpc = "returned" /\ Len(data) > 0 /\ StrictlyIncreasing(data)) =>
        LET minf == SeqMin(Column(data, 1))
            maxf == SeqMax(Column(data, 1))
        IN  /\ Len(filledin) = maxf - minf + 1
            /\ \A k \in 0..(maxf - minf) :
                 LET o == data[LastObservation(data, minf + k)]
                 IN  /\ filledin[k + 1][1] = o[1]
                     /\ filledin[k + 1][3] = o[3]
                     /\ filledin[k + 1][4] = o[4]
                     /\ filledin[k + 1][5] = o[5]

\* C2: filling a trajectory without frame gaps returns it unchanged: as many
\* rows as the input, each equal to the input row in all five columns.
C2_DenseUnchanged ==
    (fillpc = "returned" /\ Len(data) > 0 /\ Dense(data)) => filledin = data

\* An input fillin2's assertions accept.
Accepted(rows) == Len(rows) > 0 /\ FramesAssert(rows)

\* C3: for every accepted input the call returns max_frame - min_frame + 1
\* rows whose frame column is min_frame, min_frame + 1, ..., max_frame.
C3_FrameColumn ==
    (fillpc # "call" /\ Accepted(data)) =>
        LET minf == SeqMin(Column(data, 1))
            maxf == SeqMax(Column(data, 1))
        IN  /\ fillpc = "returned"
            /\ Len(filledin) = maxf - minf + 1
            /\ \A k \in 1..Len(filledin) : filledin[k][2] = minf + k - 1

\* C3's case: a returned fill of a trajectory with a gap of two frames.
C3_Witness ==
    /\ fillpc = "returned"
    /\ Len(data) = 2
    /\ Len(filledin) = 4

\* C11: fillin2 fails, returning no filled trajectory, for every input in
\* which some row's frame number is equal to or smaller than the preceding
\* row's: equal consecutive frames are rejected like decreasing ones.
C11_RejectsEqualOrDecreasing ==
    (/\ fillpc # "call"
     /\ \E i \in 1..(Len(data) - 1) : data[i + 1][2] <= data[i][2]) =>
        fillpc # "returned" /\ filledin = <<>>

----------------------------------------------------------------------------
(* MSD_iteration *)

\* fillin2 is not being checked on its own.
FillIdle == data = <<>> /\ filledin = <<>> /\ fillpc = "idle"

\* d[k] = v on a dict
DictPut(d, k, v) == [j \in DOMAIN d \cup {k} |-> IF j = k THEN v ELSE d[j]]

\* np.zeros((rows, cols))
Zeros(rows, cols) == [r \in 1..rows |-> [c \in 1..cols |-> 0]]

\* totvids: the files Traj_{name}_1 .. Traj_{name}_{totvids} are the sessions.
totvids == Len(sessions)

\* The (x, y, z) of a checked particle at frame 0; it moves by one unit of
\* each coordinate per frame, so the rows of a track all differ.
TrackStarts == { <<1, 11, 21>>, <<5, 15, 25>> }

\* The rows of one particle in a session file: its local id, frames strictly
\* increasing.
Tracks(id) ==
    UNION { { [i \in 1..n |-> <<id, fr[i], st[1] + fr[i], st[2] + fr[i], st[3] + fr[i]>>] :
                fr \in { f \in [1..n -> 0..MaxFrameI] :
                            \A i \in 1..(n - 1) : f[i] < f[i + 1] },
                st \in TrackStarts }
            : n \in 1..(MaxFrameI + 1) }

\* A session file of n particles, ids 1..n, each particle's rows together and
\* the particles in ascending id order.
RECURSIVE SessionWith(_)
SessionWith(n) ==
    IF n = 0 THEN { <<>> }
    ELSE { s \o t : s \in SessionWith(n - 1), t \in Tracks(n) }

\* The particles per session of the checked inputs.
SessionShapes == { <<1>>, <<2>>, <<1, 1>> }

IterSessions ==
    UNION { { ss \in [1..Len(sh) -> UNION { SessionWith(sh[v]) : v \in 1..Len(sh) }] :
                \A v \in 1..Len(sh) : ss[v] \in SessionWith(sh[v]) }
            : sh \in SessionShapes }

\* conversion: frames per second, xy pixel resolution, z-stack depth
\* (the docstring's order), i.e. conversion[0], conversion[1], conversion[2].
ConversionChoices == { <<1, 1, 1>>, <<2, 1, 1>>, <<1, 2, 3>> }

IterInit ==
    /\ FillIdle
    /\ MmsdIdle
    /\ sessions \in IterSessions
    /\ cut \in 0..MaxCut
    /\ conversion \in ConversionChoices
    /\ iterpc = "load"
    /\ num = 1
    /\ tots = <<>>
    /\ newtots = [k \in {0} |-> 0]
    /\ tlength = [k \in {0} |-> 0]
    /\ frames = 0
    /\ placeholder = <<>> /\ fixed = <<>> /\ total1 = 0 /\ nones = 0
    /\ x = <<>> /\ y = <<>> /\ xs = <<>> /\ ys = <<>> /\ result = <<>>

\* One iteration of the first loop: trajectory[num] is sessions[num], the
\* file's rows with its first column deleted.  Leaving the loop allocates
\* placeholder.
LoadSession ==
    /\ iterpc = "load"
    /\ num <= totvids
    /\ LET traj == sessions[num]
           last == traj[Len(traj)][1]              \* trajectory[num][-1, 0]
           top  == SeqMax(Column(traj, 1))
           tl   == DictPut(tlength, num, tlength[num - 1] + Len(traj))
       IN  /\ tots' = DictPut(tots, num, last)
           /\ newtots' = DictPut(newtots, num, newtots[num - 1] + last)
           /\ tlength' = tl
           /\ frames' = IF top > frames THEN top ELSE frames
           /\ IF num = totvids
              THEN /\ iterpc' = "merge"
                   /\ num' = 1
                   /\ placeholder' = [i \in 1..tl[totvids] |-> <<0, 0, 0, 0, 0>>]
              ELSE /\ iterpc' = "load"
                   /\ num' = num + 1
                   /\ placeholder' = placeholder
    /\ UNCHANGED <<fillVars, mmsdVars, sessions, cut, conversion, fixed, total1, nones,
                   x, y, xs, ys, result>>

\* placeholder[lo:hi, :] = trajectory[num], then column 0 += offset
MergeRowsWithoutOffset(ph, traj, lo, hi, offset) ==
    [i \in DOMAIN ph |-> IF lo < i /\ i <= hi THEN traj[i - lo] ELSE ph[i]]
MergeRows(ph, traj, lo, hi, offset) ==
    [i \in DOMAIN ph |->
        IF lo < i /\ i <= hi
        THEN LET r == traj[i - lo] IN <<r[1] + offset, r[2], r[3], r[4], r[5]>>
        ELSE ph[i]]

\* One iteration of the second loop.
MergeSession ==
    /\ iterpc = "merge"
    /\ num <= totvids
    /\ placeholder' = MergeRows(placeholder, sessions[num], tlength[num - 1],
                                tlength[num], newtots[num - 1])
    /\ IF num = totvids
       THEN iterpc' = "convert" /\ num' = num
       ELSE iterpc' = "merge" /\ num' = num + 1
    /\ UNCHANGED <<fillVars, mmsdVars, sessions, cut, conversion, tots, newtots, tlength,
                   frames, fixed, total1, nones, x, y, xs, ys, result>>

\* fixed: columns 0-1 copied, columns 2-3 times conversion[0], column 4 times
\* conversion[2].
ConvertRows(rows, conv) ==
    [i \in DOMAIN rows |->
        LET r == rows[i]
        IN  <<r[1], r[2], conv[1] * r[3], conv[1] * r[4], conv[3] * r[5]>>]

\* From "dataset = dict()" to "cutoff = cut".
Convert ==
    /\ iterpc = "convert"
    /\ LET total == SeqMax(Column(placeholder, 0))
       IN  /\ total1' = total + 1
           /\ x' = Zeros(frames + 1, total + 1)
           /\ y' = Zeros(frames + 1, total + 1)
           /\ xs' = Zeros(frames + 1, total + 1)
           /\ ys' = Zeros(frames + 1, total + 1)
    /\ fixed' = ConvertRows(placeholder, conversion)
    /\ nones' = 0
    /\ num' = 1
    /\ iterpc' = "particles"
    /\ UNCHANGED <<fillVars, mmsdVars, sessions, cut, conversion, tots, newtots, tlength,
                   frames, placeholder, result>>
\* m[lo:hi, col] = vals for Python's lo, hi and col: the slice is clipped
\* to the matrix, and vals must have its length (or length 1, broadcast).
SliceAssign(m, lo, hi, col, vals) ==
    LET stop == IF hi < Len(m) THEN hi ELSE Len(m)
        n    == IF stop > lo THEN stop - lo ELSE 0
    IN  IF Len(m) > 0 /\ ~(col < Len(m[1])) THEN Raise("IndexError")
        ELSE IF Len(vals) # n /\ Len(vals) # 1 THEN Raise("ValueError")
        ELSE Return([r \in DOMAIN m |->
                        [c \in DOMAIN m[r] |->
                            IF c = col + 1 /\ lo < r /\ r <= stop
                            THEN IF Len(vals) = 1 THEN vals[1] ELSE vals[r - lo]
                            ELSE m[r][c]]])

\* hold[0]: the (Python) indices of the rows of particle id
ItIndex(particles, id) == { i - 1 : i \in { j \in DOMAIN particles : particles[j] = id } }

SetMin(S) == CHOOSE m \in S : \A e \in S : m <= e
SetMax(S) == CHOOSE m \in S : \A e \in S : e <= m

\* "if max1 - min1 < cutoff": the particle is cut
IsCutByRowCount(min1, max1, cutoff) == max1 - min1 + 1 < cutoff
IsCut(min1, max1, cutoff) == max1 - min1 < cutoff

\* The column of particle id, given the particles cut before it.
ColumnOfUncompacted(id, cutBefore) == id - 1
ColumnOf(id, cutBefore) == id - cutBefore - 1

\* One iteration of "for num in range(1, total1)".
ParticleStep ==
    /\ iterpc = "particles"
    /\ num < total1
    /\ LET itindex == ItIndex(Column(placeholder, 0), num)
       IN  IF itindex = {}
           THEN \* min() of an empty sequence
                /\ iterpc' = "ValueError"
                /\ UNCHANGED <<nones, x, y, xs, ys, num>>
           ELSE
             LET min1 == SetMin(itindex)
                 max1 == SetMax(itindex)
             IN  IF IsCut(min1, max1, cut)
                 THEN /\ nones' = nones + 1
                      /\ num' = num + 1
                      /\ UNCHANGED <<iterpc, x, y, xs, ys>>
                 ELSE
                   LET call == fillin2(SubSeq(fixed, min1 + 1, max1 + 1))
                   IN  IF IsError(call)
                       THEN /\ iterpc' = call.exc
                            /\ UNCHANGED <<nones, x, y, xs, ys, num>>
                       ELSE
                         LET holdplease == call.val
                             first == holdplease[1][2]
                             last  == holdplease[Len(holdplease)][2]
                             col   == ColumnOf(num, nones)
                             ax  == SliceAssign(x, first, last + 1, col, Column(holdplease, 2))
                             ay  == SliceAssign(y, first, last + 1, col, Column(holdplease, 3))
                             axs == SliceAssign(xs, 0, last + 1 - first, col, Column(holdplease, 2))
                             ays == SliceAssign(ys, 0, last + 1 - first, col, Column(holdplease, 3))
                             bad == { a \in {ax, ay, axs, ays} : IsError(a) }
                         IN  IF bad # {}
                             THEN /\ iterpc' = (CHOOSE a \in bad : TRUE).exc
                                  /\ UNCHANGED <<nones, x, y, xs, ys, num>>
                             ELSE /\ x' = ax.val
                                  /\ y' = ay.val
                                  /\ xs' = axs.val
                                  /\ ys' = ays.val
                                  /\ num' = num + 1
                                  /\ UNCHANGED <<iterpc, nones>>
    /\ UNCHANGED <<fillVars, mmsdVars, sessions, cut, conversion, tots, newtots, tlength,
                   frames, placeholder, fixed, total1, result>>

\* m[:, :n]
FirstColumns(m, n) == [r \in DOMAIN m |-> SubSeq(m[r], 1, n)]

\* From "total1 = total1 - nones - 1" to the return.
ReturnMatrices ==
    /\ iterpc = "particles"
    /\ ~(num < total1)
    /\ LET t == total1 - nones - 1
       IN  /\ total1' = t
           /\ result' = [total1 |-> t,
                         xs_m |-> FirstColumns(xs, t), ys_m |-> FirstColumns(ys, t),
                         x_m |-> FirstColumns(x, t), y_m |-> FirstColumns(y, t)]
    /\ iterpc' = "returned"
    /\ UNCHANGED <<fillVars, mmsdVars, sessions, cut, conversion, tots, newtots, tlength,
                   frames, placeholder, fixed, nones, num, x, y, xs, ys>>

IterNext == LoadSession \/ MergeSession \/ Convert \/ ParticleStep \/ ReturnMatrices

SpecIter == IterInit /\ [][IterNext]_vars

----------------------------------------------------------------------------
(* Claims about MSD_iteration, checked under SpecIter.  They are stated on  *)
(* the input files (sessions), not on the code's intermediate arrays.       *)

\* The local ids of a session file.
IdsOf(sess) == { sess[i][1] : i \in DOMAIN sess }

RECURSIVE ParticlesBefore(_)
\* The particles of the sessions before session v.
ParticlesBefore(v) ==
    IF v <= 1 THEN 0 ELSE ParticlesBefore(v - 1) + Cardinality(IdsOf(sessions[v - 1]))

\* The number of input particles.
InputParticles == ParticlesBefore(Len(sessions) + 1)

\* The session of the particle with global id g, and its rows in that file.
SessionOf(g) ==
    CHOOSE v \in 1..Len(sessions) :
        ParticlesBefore(v) < g /\ g <= ParticlesBefore(v + 1)
RECURSIVE RowsWithId(_, _)
RowsWithId(sess, id) ==
    IF sess = <<>> THEN <<>>
    ELSE IF Head(sess)[1] = id THEN <<Head(sess)>> \o RowsWithId(Tail(sess), id)
    ELSE RowsWithId(Tail(sess), id)
TrackOf(g) == RowsWithId(sessions[SessionOf(g)], g - ParticlesBefore(SessionOf(g)))

\* Last observed frame number minus first observed frame number.
FrameSpan(g) == SeqMax(Column(TrackOf(g), 1)) - SeqMin(Column(TrackOf(g), 1))

\* The particles the particle loop has dealt with.
Processed == IF iterpc = "returned" THEN 1..InputParticles ELSE 1..(num - 1)

\* "The particles g with Keep(g) are exactly those that received a column":
\* every other processed particle was counted as cut, and row 0 of the
\* relative x matrix holds, in the column after those of the kept particles
\* before g, the converted x of g's first record.
ColumnsAreOf(Keep(_)) ==
    /\ nones = Cardinality({ g \in Processed : ~Keep(g) })
    /\ \A g \in { h \in Processed : Keep(h) } :
         LET col == Cardinality({ h \in 1..g : Keep(h) })
         IN  /\ col <= Len(xs[1])
             /\ xs[1][col] = conversion[1] * TrackOf(g)[1][3]

KeptByFrameSpan(g) == FrameSpan(g) >= cut
KeptByRecords(g) == Len(TrackOf(g)) - 1 >= cut

ExpectedColumn(g, c, relative) ==
    LET fill  == fillin2(ConvertRows(TrackOf(g), conversion)).val
        first == IF relative THEN 0 ELSE fill[1][2]
        top   == SeqMax([v \in 1..Len(sessions) |-> SeqMax(Column(sessions[v], 1))])
    IN  [r \in 1..(top + 1) |->
            IF first < r /\ r <= first + Len(fill) THEN fill[r - first][c + 1] ELSE 0]

\* C5: the returned count is the number of input particles minus the number
\* of cut particles, each of the four matrices has that many columns, the
\* kept particles occupy the columns in ascending global id order, one each,
\* and so no cut particle's coordinates are in a column.
C5_SurvivingColumns ==
    iterpc = "returned" =>
        LET kept == { g \in 1..InputParticles : KeptByRecords(g) }
            cutN == Cardinality({ g \in 1..InputParticles : ~KeptByRecords(g) })
        IN  /\ result.total1 = InputParticles - cutN
            /\ \A m \in {result.xs_m, result.ys_m, result.x_m, result.y_m} :
                 \A r \in DOMAIN m : Len(m[r]) = result.total1
            /\ \A g \in kept :
                 LET col == Cardinality({ h \in kept : h <= g })
                 IN  /\ Column(result.x_m, col - 1) = ExpectedColumn(g, 2, FALSE)
                     /\ Column(result.y_m, col - 1) = ExpectedColumn(g, 3, FALSE)
                     /\ Column(result.xs_m, col - 1) = ExpectedColumn(g, 2, TRUE)
                     /\ Column(result.ys_m, col - 1) = ExpectedColumn(g, 3, TRUE)

\* C5's case: two sessions, the first one's particle cut and the second
\* one's kept.
C5_Witness ==
    /\ iterpc = "returned"
    /\ Len(sessions) = 2
    /\ ~KeptByRecords(1)
    /\ KeptByRecords(2)
    /\ result.total1 = 1

\* C6: a single session of one particle without frame gaps: the particle's
\* column of the absolute x (and y) matrix holds, at each row that is one of
\* its frames, that frame's input x (y) times the xy scale, and 0 elsewhere.
C6_RoundTrip ==
    (/\ iterpc = "returned"
     /\ Len(sessions) = 1
     /\ InputParticles = 1
     /\ Dense(sessions[1])
     /\ result.total1 = 1) =>
        \A r \in DOMAIN result.x_m :
            LET at == { i \in DOMAIN sessions[1] : sessions[1][i][2] = r - 1 }
            IN  IF at = {}
                THEN result.x_m[r][1] = 0 /\ result.y_m[r][1] = 0
                ELSE \A i \in at :
                        /\ result.x_m[r][1] = conversion[2] * sessions[1][i][3]
                        /\ result.y_m[r][1] = conversion[2] * sessions[1][i][4]

\* The rows of all sessions, in file order.
RECURSIVE RawRows(_)
RawRows(v) == IF v = 0 THEN <<>> ELSE RawRows(v - 1) \o sessions[v]

\* C7: every raw x and y is multiplied by the xy scale of conversion and
\* every raw z by the z scale before filling, and the frames-per-second
\* element has no effect: every cell of a returned matrix is 0 or a raw
\* coordinate times the xy scale.
C7_SpatialScale ==
    iterpc \in {"particles", "returned"} =>
        LET raw == RawRows(Len(sessions))
        IN  /\ Len(fixed) = Len(raw)
            /\ \A i \in DOMAIN raw :
                 /\ fixed[i][3] = conversion[2] * raw[i][3]
                 /\ fixed[i][4] = conversion[2] * raw[i][4]
                 /\ fixed[i][5] = conversion[3] * raw[i][5]
            /\ iterpc = "returned" =>
                 /\ \A r \in DOMAIN result.x_m : \A c \in DOMAIN result.x_m[r] :
                      result.x_m[r][c] \in {0} \cup { conversion[2] * raw[i][3] : i \in DOMAIN raw }
                 /\ \A r \in DOMAIN result.y_m : \A c \in DOMAIN result.y_m[r] :
                      result.y_m[r][c] \in {0} \cup { conversion[2] * raw[i][4] : i \in DOMAIN raw }

----------------------------------------------------------------------------
(* MSD_iteration on session files whose rows are in any order *)

\* The ids and frames of the rows of such a file, and the (x, y, z) of every
\* row: the merge reads the ids only.
AnyOrderIds == {1, 2}
AnyOrderFrames == {0, 1}
AnyOrderCoord == <<1, 11, 21>>

\* A session file of up to MaxFileRows rows, in any order of id and frame.
AnyOrderFiles ==
    UNION { { [i \in 1..n |-> <<id[i], fr[i], AnyOrderCoord[1], AnyOrderCoord[2],
                               AnyOrderCoord[3]>>] :
                id \in [1..n -> AnyOrderIds], fr \in [1..n -> AnyOrderFrames] }
            : n \in 1..MaxFileRows }

\* One or two such files.
AnyOrderSessions ==
    { <<f>> : f \in AnyOrderFiles } \cup { <<f, g>> : f \in AnyOrderFiles, g \in AnyOrderFiles }

\* A call with the default cut and conversion.
MergeInit ==
    /\ FillIdle
    /\ MmsdIdle
    /\ sessions \in AnyOrderSessions
    /\ cut = 1
    /\ conversion = <<1, 1, 1>>
    /\ iterpc = "load"
    /\ num = 1
    /\ tots = <<>>
    /\ newtots = [k \in {0} |-> 0]
    /\ tlength = [k \in {0} |-> 0]
    /\ frames = 0
    /\ placeholder = <<>> /\ fixed = <<>> /\ total1 = 0 /\ nones = 0
    /\ x = <<>> /\ y = <<>> /\ xs = <<>> /\ ys = <<>> /\ result = <<>>

SpecMerge == MergeInit /\ [][IterNext]_vars

----------------------------------------------------------------------------
(* Claims about the merge of MSD_iteration, checked under SpecMerge. *)

\* Both loops over the sessions have ended: placeholder holds the merged rows.
Merged == iterpc \notin {"idle", "load", "merge"}

RECURSIVE RowsBefore(_)
\* The rows of the sessions before session v.
RowsBefore(v) == IF v <= 1 THEN 0 ELSE RowsBefore(v - 1) + Len(sessions[v - 1])

\* The global id given to row j of session k.
GlobalId(k, j) == placeholder[RowsBefore(k) + j][1]

\* Every record of session k has global id = local id + the particles of the
\* sessions before k; records of different sessions share no global id, the
\* ids of a later session are above those of an earlier one, and every id of
\* 1..total is used.
GlobalIdsByParticleCount ==
    /\ Len(placeholder) = RowsBefore(Len(sessions) + 1)
    /\ \A k \in 1..Len(sessions) : \A j \in 1..Len(sessions[k]) :
         GlobalId(k, j) = sessions[k][j][1] + ParticlesBefore(k)
    /\ \A k \in 1..Len(sessions) : \A l \in 1..Len(sessions) :
         k < l => \A i \in 1..Len(sessions[k]) : \A j \in 1..Len(sessions[l]) :
                     GlobalId(k, i) < GlobalId(l, j)
    /\ { placeholder[i][1] : i \in DOMAIN placeholder } = 1..SeqMax(Column(placeholder, 0))

\* The particles of the file are numbered 1..n, whatever the order of its rows.
NumberedFromOne(sess) == IdsOf(sess) = 1..Cardinality(IdsOf(sess))

\* C12: the merge gives every record of session k the global id local id +
\* particles of sessions 1..k-1, with no shared, no out-of-order and no unused
\* global id, for any order of the records inside a session's file.
C12_GlobalIdsAnyOrder ==
    (Merged /\ \A k \in 1..Len(sessions) : NumberedFromOne(sessions[k])) =>
        GlobalIdsByParticleCount

\* The last row of the file carries the file's largest id, as in a file
\* sorted by id.
EndsWithLargestId(sess) ==
    /\ NumberedFromOne(sess)
    /\ sess[Len(sess)][1] = Cardinality(IdsOf(sess))

\* C12, amended: the same, for session files whose last row carries the
\* file's largest id; not for any order of the rows.
C12_GlobalIdsLastRowLargest ==
    (Merged /\ \A k \in 1..Len(sessions) : EndsWithLargestId(sessions[k])) =>
        GlobalIdsByParticleCount

\* C12's case: two merged sessions, the first of two particles, so the ids
\* of the second are moved up by two.
C12_Witness ==
    /\ Merged
    /\ Len(sessions) = 2
    /\ \A k \in 1..2 : EndsWithLargestId(sessions[k])
    /\ Cardinality(IdsOf(sessions[1])) = 2
    /\ GlobalId(2, 1) = sessions[2][1][1] + 2

----------------------------------------------------------------------------
(* vectorized_MMSD_calcs *)

(* A float is the fraction <<numerator, denominator>>; a cell of a masked   *)
(* array is [d |-> its data, m |-> whether it is masked].  The arguments    *)
(* x_m and y_m are masked and never read, and are left out.                 *)

RatEq(a, b) == a[1] * b[2] = b[1] * a[2]
RatAdd(a, b) == <<a[1] * b[2] + b[1] * a[2], a[2] * b[2]>>

\* ma.masked_equal(mat, v)
MaskedEqual(mat, v) ==
    [r \in DOMAIN mat |-> [c \in DOMAIN mat[r] |-> [d |-> mat[r][c], m |-> mat[r][c] = v]]]

\* (b - c)**2 for a masked row b broadcast over the rows of the masked c: a
\* cell is masked when either operand is.  The data under a mask is not read.
SquaredDiff(b, c) ==
    [t \in DOMAIN c |->
        [p \in DOMAIN c[t] |->
            [d |-> (b[p].d - c[t][p].d) * (b[p].d - c[t][p].d),
             m |-> b[p].m \/ c[t][p].m]]]

RECURSIVE SumOver(_, _)
\* The sum of f[t] over t in S.
SumOver(f, S) ==
    IF S = {} THEN 0
    ELSE LET t == CHOOSE e \in S : TRUE IN f[t] + SumOver(f, S \ {t})

\* np.mean(M, axis=0) of the masked M with ncols columns: per column the sum
\* of the unmasked cells over their number; with none, the cell is masked
\* and its data is 0.
MaskedMean(M, ncols) ==
    [p \in 1..ncols |->
        LET valid == { t \in DOMAIN M : ~M[t][p].m }
            total == SumOver([t \in DOMAIN M |-> M[t][p].d], valid)
        IN  IF valid = {} THEN [d |-> <<0, 1>>, m |-> TRUE]
            ELSE [d |-> <<total, Cardinality(valid)>>, m |-> FALSE]]

\* arr[idx, :] = vals for an ndarray arr of ncols columns and a masked vals:
\* the data is stored and the mask dropped.
RowAssign(arr, ncols, idx, vals) ==
    IF ~(idx < Len(arr)) THEN Raise("IndexError")
    ELSE IF Len(vals) # ncols /\ Len(vals) # 1 THEN Raise("ValueError")
    ELSE Return([arr EXCEPT ![idx + 1] =
                    [c \in 1..ncols |-> IF Len(vals) = 1 THEN vals[1].d ELSE vals[c].d]])

\* The particle counts and the (x, y) cells of the checked matrices: (0, 0)
\* is a particle that is absent, (3, 0) one at y = 0.
ParticleCounts == {1, 2}
CellChoices == { <<0, 0>>, <<1, 2>>, <<3, 0>> }

MmsdInit ==
    /\ FillIdle
    /\ IterIdle
    /\ \E R \in 2..MaxRowsM, P \in ParticleCounts :
         /\ \E cells \in [(1..R) \X (1..P) -> CellChoices] :
              /\ xs_m = [r \in 1..R |-> [p \in 1..P |-> cells[<<r, p>>][1]]]
              /\ ys_m = [r \in 1..R |-> [p \in 1..P |-> cells[<<r, p>>][2]]]
         /\ frame_m \in 2..R
         /\ m_frames \in {R - 1, R}
         /\ m_total1 \in {P, P + 1}
    /\ SM1x = [r \in 1..m_frames |-> [c \in 1..(m_total1 - 1) |-> <<0, 1>>]]
    /\ SM1y = [r \in 1..m_frames |-> [c \in 1..(m_total1 - 1) |-> <<0, 1>>]]
    /\ frame = 1
    /\ Mxa = <<>> /\ Mya = <<>> /\ dist = <<>> /\ m_result = <<>>
    /\ mmsdpc = "loop"

\* The per-particle means of one lag: np.mean((b - c)**2, axis=0) with
\* b = m[lag, :] and c = m[:-lag, :].
LagMeans(masked, lag) ==
    LET b == masked[lag + 1]
        c == SubSeq(masked, 1, Len(masked) - lag)
    IN  MaskedMean(SquaredDiff(b, c), Len(b))

\* One iteration of "for frame in range(1, frame_m)".
LagStep ==
    /\ mmsdpc = "loop"
    /\ frame < frame_m
    /\ IF ~(frame < Len(xs_m))
       THEN /\ mmsdpc' = "IndexError"
            /\ UNCHANGED <<Mxa, Mya, SM1x, SM1y, frame>>
       ELSE
         LET mx == LagMeans(MaskedEqual(xs_m, 0), frame)
             my == LagMeans(MaskedEqual(ys_m, 0), frame)
             ax == RowAssign(SM1x, m_total1 - 1, frame, mx)
             ay == RowAssign(SM1y, m_total1 - 1, frame, my)
         IN  /\ Mxa' = mx
             /\ Mya' = my
             /\ IF IsError(ax)
                THEN /\ mmsdpc' = ax.exc
                     /\ UNCHANGED <<SM1x, SM1y, frame>>
                ELSE IF IsError(ay)
                THEN /\ mmsdpc' = ay.exc
                     /\ SM1x' = ax.val
                     /\ UNCHANGED <<SM1y, frame>>
                ELSE /\ SM1x' = ax.val
                     /\ SM1y' = ay.val
                     /\ frame' = frame + 1
                     /\ UNCHANGED mmsdpc
    /\ UNCHANGED <<fillVars, iterVars, xs_m, ys_m, frame_m, m_frames, m_total1,
                   dist, m_result>>

\* The argument of np.log(a + b) for masked a and b: masked where an operand
\* is, and where the sum is not positive (the domain of the logarithm).
LogArgument(a, b) ==
    [p \in DOMAIN a |->
        LET sum == RatAdd(a[p].d, b[p].d)
        IN  [d |-> sum, m |-> a[p].m \/ b[p].m \/ ~(sum[1] > 0)]]

\* After the loop: dist is taken from the Mya and Mxa the last iteration
\* left, and np.ma.mean(dist, axix=0) raises the TypeError of an unexpected
\* keyword argument, so gSEM, SM2xy and the return are not reached.
Summarize ==
    /\ mmsdpc = "loop"
    /\ ~(frame < frame_m)
    /\ IF Mya = <<>>
       THEN mmsdpc' = "NameError" /\ dist' = dist
       ELSE mmsdpc' = "TypeError" /\ dist' = LogArgument(Mya, Mxa)
    /\ UNCHANGED <<fillVars, iterVars, xs_m, ys_m, frame_m, m_frames, m_total1,
                   frame, SM1x, SM1y, Mxa, Mya, m_result>>

MmsdNext == LagStep \/ Summarize

SpecMmsd == MmsdInit /\ [][MmsdNext]_vars

----------------------------------------------------------------------------
(* Claims about vectorized_MMSD_calcs, checked under SpecMmsd. *)

\* The caller passed a total1 under which SM1x has one column per particle.
OneColumnPerParticle == m_total1 = Len(xs_m[1]) + 1

\* The lags whose row of SM1x and SM1y has been written.
WrittenLags == 1..(frame - 1)

\* The mean of (pos[t + tau][p] - pos[t][p])^2 over the start rows t of
\* [0, rows - tau) at which neither cell is the missing-value 0, as the
\* fraction <<sum, number of terms>>.
MeanOfLagTerms(pos, tau, p) ==
    LET starts == { t \in 0..(Len(pos) - tau - 1) :
                        pos[t + 1][p] # 0 /\ pos[t + tau + 1][p] # 0 }
        sq == [t \in 0..(Len(pos) - tau - 1) |->
                  (pos[t + tau + 1][p] - pos[t + 1][p]) * (pos[t + tau + 1][p] - pos[t + 1][p])]
    IN  <<SumOver(sq, starts), Cardinality(starts)>>

\* C8: for every lag tau and particle p the x (and y) mean squared
\* displacement is the mean of (pos[t + tau][p] - pos[t][p])^2 over the start
\* rows t in [0, frame_count - tau): each term compares two rows tau apart.
C8_TermsTauApart ==
    OneColumnPerParticle =>
        \A tau \in WrittenLags : \A p \in 1..Len(xs_m[1]) :
            /\ MeanOfLagTerms(xs_m, tau, p)[2] > 0 =>
                   RatEq(SM1x[tau + 1][p], MeanOfLagTerms(xs_m, tau, p))
            /\ MeanOfLagTerms(ys_m, tau, p)[2] > 0 =>
                   RatEq(SM1y[tau + 1][p], MeanOfLagTerms(ys_m, tau, p))

\* The mean of the terms the code forms at lag tau, (pos[tau][p] - pos[t][p])^2
\* for t in [0, rows - tau), leaving out every term that reads a 0 cell.
MeanOfValidTerms(pos, tau, p) ==
    LET valid == { t \in 0..(Len(pos) - tau - 1) :
                       pos[t + 1][p] # 0 /\ pos[tau + 1][p] # 0 }
        sq == [t \in 0..(Len(pos) - tau - 1) |->
                  (pos[tau + 1][p] - pos[t + 1][p]) * (pos[tau + 1][p] - pos[t + 1][p])]
    IN  <<SumOver(sq, valid), Cardinality(valid)>>

\* A float that is not a number.
Undefined(v) == v[2] = 0

\* The value a lag and particle yield is the mean over the terms that read no
\* 0 cell, and is undefined, not 0, when there is no such term.
YieldsMaskedMean(pos, out, tau, p) ==
    LET mean == MeanOfValidTerms(pos, tau, p)
    IN  IF mean[2] = 0 THEN Undefined(out[tau + 1][p])
        ELSE ~Undefined(out[tau + 1][p]) /\ RatEq(out[tau + 1][p], mean)

\* C9: a 0 cell is missing: a term that reads one is left out of the
\* numerator and of the count of the per-particle mean, and a particle with
\* no valid term at a lag yields an undefined value for that lag, not 0.
C9_ZeroIsMissing ==
    OneColumnPerParticle =>
        \A tau \in WrittenLags : \A p \in 1..Len(xs_m[1]) :
            /\ YieldsMaskedMean(xs_m, SM1x, tau, p)
            /\ YieldsMaskedMean(ys_m, SM1y, tau, p)

\* A call whose arguments fit each other: one column of SM1x per particle,
\* a row of SM1x for every lag, and at least one lag.
ValidCall == OneColumnPerParticle /\ frame_m <= m_frames /\ frame_m >= 2

\* C10: for every valid input with max_lag >= 2 the call returns, and its
\* log-MSD summary and its standard error hold one value for each lag
\* 1..max_lag-1.
C10_ReturnsOneValuePerLag ==
    (ValidCall /\ mmsdpc # "loop") =>
        /\ mmsdpc = "returned"
        /\ Len(m_result.geoM2xy) = frame_m - 1
        /\ Len(m_result.gSEM) = frame_m - 1

=============================================================================
